---- MODULE Spec2Model ----
(***************************************************************************)
(* Model of meetings/from_gcal.py and of the option handling of            *)
(* meetings/flask_main.py.                                                 *)
(*                                                                         *)
(* An ISO-8601 string with offset is the tuple                             *)
(*     <<day, hour, minute, second, off>>                                  *)
(* (calendar day number, wall-clock time, UTC offset in hours); an Arrow   *)
(* object is the record with the same five fields.  arrow_get parses the   *)
(* one into the other and isoformat prints it back.  Arrow objects compare *)
(* as absolute instants (timestamp).  A Python call that may raise returns *)
(* the record [outcome, value], outcome "ok" or the exception's name.      *)
(***************************************************************************)
EXTENDS Integers, Sequences, FiniteSets, TLC

VARIABLES tzlocal, op, args, ret, session

vars == <<tzlocal, op, args, ret, session>>

(* ------------------------------ bounds -------------------------------- *)

\* Calendar days that inputs are drawn from: 0 .. MaxDay.
MaxDay == 2

\* The last date datetime can represent (datetime.max): shifting past it
\* raises OverflowError.  It lies beyond every input day.
MaxDate == MaxDay + 2

Days == 0 .. MaxDay

\* Calendars in a calendar list.
MaxCals == 3

\* Events the service holds.
MaxEvents == 2

\* Instances of a recurring event.
MaxInst == 2

\* Wall-clock times <<hour, minute>> that inputs are drawn from.
Clock == {<<0, 0>>, <<9, 0>>, <<18, 0>>, <<23, 59>>}

Seconds == {0, 30}

\* UTC offsets, in hours.
Offsets == {0, 1}

(* --------------------------- arrow, dateutil --------------------------- *)

arrow_get(iso) ==
    [day |-> iso[1], hour |-> iso[2], minute |-> iso[3],
     second |-> iso[4], off |-> iso[5]]

isoformat(arr) == <<arr.day, arr.hour, arr.minute, arr.second, arr.off>>

\* Arrow.format("HH:mm")
format_HHmm(arr) == <<arr.hour, arr.minute>>

\* Arrow.format("YYYY-MM-DD"): the calendar date in the object's own offset
format_date(arr) == arr.day

\* Seconds since the epoch: what <, <=, > between Arrow objects compare.
timestamp(arr) ==
    ((arr.day * 24 + arr.hour - arr.off) * 60 + arr.minute) * 60 + arr.second

\* arrow.get("YYYY-MM-DD"), the date string being the tuple <<day>>:
\* midnight UTC of that date
arrow_get_date(text) == [day |-> text[1], hour |-> 0, minute |-> 0, second |-> 0, off |-> 0]

\* arrow.get("HH:mm", "HH:mm"): that time on 0001-01-01 UTC
arrow_get_HHmm(hm) ==
    [day |-> 0, hour |-> hm[1], minute |-> hm[2], second |-> 0, off |-> 0]

\* Arrow.replace(tzinfo=...): same wall-clock reading, other offset
replace_tzinfo(arr, off) == [arr EXCEPT !.off = off]

Ok(v) == [outcome |-> "ok", value |-> v]

Raise(e) == [outcome |-> e, value |-> <<>>]

(* ------------------------------ from_gcal ------------------------------ *)

merge_date_time(isodate, isotime) ==
    LET date_arr == arrow_get(isodate)
        time_arr == arrow_get(isotime)
    IN  isoformat([date_arr EXCEPT !.hour = time_arr.hour,
                                   !.minute = time_arr.minute])

RECURSIVE avail_loop(_, _, _, _, _)
\* The while loop of list_availabilities_btwn_dates.
avail_loop(curr_arr, avails, iso_end_date, iso_begin_time, iso_end_time) ==
    IF format_date(curr_arr) = format_date(arrow_get(iso_end_date))
    THEN Ok(avails)
    ELSE IF curr_arr.day >= MaxDate
    THEN Raise("OverflowError")
    ELSE LET next_arr == [curr_arr EXCEPT !.day = @ + 1]
         IN  avail_loop(next_arr,
                        Append(avails,
                               [bt |-> merge_date_time(isoformat(next_arr), iso_begin_time),
                                et |-> merge_date_time(isoformat(next_arr), iso_end_time)]),
                        iso_end_date, iso_begin_time, iso_end_time)

list_availabilities_btwn_dates(iso_begin_date, iso_end_date, iso_begin_time, iso_end_time) ==
    avail_loop(arrow_get(iso_begin_date),
               <<[bt |-> merge_date_time(iso_begin_date, iso_begin_time),
                  et |-> merge_date_time(iso_begin_date, iso_end_time)]>>,
               iso_end_date, iso_begin_time, iso_end_time)

\* The test of line 221, with touching boundaries counted as outside.
outside_avail_nonstrict(instance_begin, instance_end, bt, et) ==
    \/ timestamp(instance_begin) <= timestamp(bt) /\ timestamp(instance_end) <= timestamp(bt)
    \/ timestamp(instance_begin) >= timestamp(et) /\ timestamp(instance_end) >= timestamp(et)

\* The test of line 221: the instance is not a busy time within [bt, et].
outside_avail(instance_begin, instance_end, bt, et) ==
    \/ timestamp(instance_begin) < timestamp(bt) /\ timestamp(instance_end) < timestamp(bt)
    \/ timestamp(instance_begin) > timestamp(et) /\ timestamp(instance_end) > timestamp(et)

RECURSIVE avail_scan(_, _, _, _)
\* The for loop of really_between_times, from entry i on.
avail_scan(avails, i, instance_begin, instance_end) ==
    IF i > Len(avails)
    THEN FALSE
    ELSE IF outside_avail(instance_begin, instance_end,
                          arrow_get(avails[i].bt), arrow_get(avails[i].et))
    THEN avail_scan(avails, i + 1, instance_begin, instance_end)
    ELSE TRUE

\* really_between_times with the whole-day case of lines 206-210 left out.
really_between_times_no_sentinel(instance, begin_time, end_time) ==
    LET avails == list_availabilities_btwn_dates(instance.begin_datetime,
                      instance.end_datetime, begin_time, end_time)
    IN  IF avails.outcome # "ok"
        THEN Raise(avails.outcome)
        ELSE Ok(avail_scan(avails.value, 1, arrow_get(instance.begin_datetime),
                           arrow_get(instance.end_datetime)))

really_between_times(instance, begin_time, end_time) ==
    LET begin == format_HHmm(arrow_get(begin_time))
        end   == format_HHmm(arrow_get(end_time))
    IN  IF begin = end
        THEN Ok(TRUE)
        ELSE LET avails == list_availabilities_btwn_dates(instance.begin_datetime,
                               instance.end_datetime, begin_time, end_time)
             IN  IF avails.outcome # "ok"
                 THEN Raise(avails.outcome)
                 ELSE Ok(avail_scan(avails.value, 1,
                                    arrow_get(instance.begin_datetime),
                                    arrow_get(instance.end_datetime)))

\* The all-day branch of reorg_instance with the end of day taken at 00:00.
all_day_end_at_midnight(end_date_str, local) ==
    merge_date_time(isoformat(replace_tzinfo(arrow_get_date(end_date_str), local)),
                    isoformat(arrow_get_HHmm(<<0, 0>>)))

\* Lines 173-174 of reorg_instance.
all_day_end(end_date_str, local) ==
    merge_date_time(isoformat(replace_tzinfo(arrow_get_date(end_date_str), local)),
                    isoformat(arrow_get_HHmm(<<23, 59>>)))

\* Lines 171-172 of reorg_instance.
all_day_begin(begin_date_str, local) ==
    merge_date_time(isoformat(replace_tzinfo(arrow_get_date(begin_date_str), local)),
                    isoformat(arrow_get_HHmm(<<0, 0>>)))

\* reorg_instance taking a record without timing for the whole of day 0
\* instead of failing.
reorg_instance_no_assert(instance, local) ==
    IF instance.start.kind = "dateTime"
    THEN IF instance.end.kind # "dateTime"
         THEN Raise("KeyError")
         ELSE Ok([event_id |-> instance.id, summary |-> instance.summary,
                  begin_datetime |-> instance.start.value,
                  end_datetime |-> instance.end.value])
    ELSE IF instance.start.kind = "date"
    THEN IF instance.end.kind # "date"
         THEN Raise("KeyError")
         ELSE Ok([event_id |-> instance.id, summary |-> instance.summary,
                  begin_datetime |-> all_day_begin(instance.start.value, local),
                  end_datetime |-> all_day_end(instance.end.value, local)])
    ELSE Ok([event_id |-> instance.id, summary |-> instance.summary,
             begin_datetime |-> all_day_begin(<<0>>, local),
             end_datetime |-> all_day_end(<<0>>, local)])

\* A raw record's start and end are [kind, value]: kind "dateTime" (value an
\* ISO string), "date" (value a date) or "none" (the key holds neither).
reorg_instance(instance, local) ==
    IF instance.start.kind = "dateTime"
    THEN IF instance.end.kind # "dateTime"
         THEN Raise("KeyError")
         ELSE Ok([event_id |-> instance.id, summary |-> instance.summary,
                  begin_datetime |-> instance.start.value,
                  end_datetime |-> instance.end.value])
    ELSE IF instance.start.kind = "date"
    THEN IF instance.end.kind # "date"
         THEN Raise("KeyError")
         ELSE Ok([event_id |-> instance.id, summary |-> instance.summary,
                  begin_datetime |-> all_day_begin(instance.start.value, local),
                  end_datetime |-> all_day_end(instance.end.value, local)])
    ELSE Raise("AssertionError")

\* Python's < between two strings, each the sequence of its code points.
RECURSIVE str_lt(_, _)
str_lt(a, b) ==
    IF b = <<>> THEN FALSE
    ELSE IF a = <<>> THEN TRUE
    ELSE IF Head(a) # Head(b) THEN Head(a) < Head(b)
    ELSE str_lt(Tail(a), Tail(b))

\* Python's < between two sort keys: tuples of three strings, compared piecewise.
key_lt(k1, k2) ==
    IF k1[1] # k2[1] THEN str_lt(k1[1], k2[1])
    ELSE IF k1[2] # k2[2] THEN str_lt(k1[2], k2[2])
    ELSE str_lt(k1[3], k2[3])

\* cal_sort_key with the selected key put before the primary key.
cal_sort_key_selected_first(cal) ==
    <<IF cal.selected THEN <<32>> ELSE <<88>>,
      IF cal.primary THEN <<32>> ELSE <<88>>,
      cal.summary>>

\* " " is <<32>> and "X" is <<88>>.
cal_sort_key(cal) ==
    LET selected_key == IF cal.selected THEN <<32>> ELSE <<88>>
        primary_key  == IF cal.primary THEN <<32>> ELSE <<88>>
    IN  <<primary_key, selected_key, cal.summary>>

RECURSIVE insert_by_key(_, _)
\* x put into the sorted list after every entry whose key is not greater.
insert_by_key(sorted_list, x) ==
    IF sorted_list = <<>> THEN <<x>>
    ELSE IF key_lt(cal_sort_key(x), cal_sort_key(Head(sorted_list)))
    THEN <<x>> \o sorted_list
    ELSE <<Head(sorted_list)>> \o insert_by_key(Tail(sorted_list), x)

RECURSIVE sorted_by_key(_, _)
\* sorted(result, key=cal_sort_key): a stable sort, entry i of the list onwards.
sorted_by_key(list, acc) ==
    IF list = <<>> THEN acc
    ELSE sorted_by_key(Tail(list), insert_by_key(acc, Head(list)))

\* An optional binary attribute of a raw calendar is <<>> (key absent) or
\* <<v>> (key present with value v).
list_calendars(calendar_list) ==
    LET result == [i \in DOMAIN calendar_list |->
                     LET cal == calendar_list[i]
                     IN  [kind |-> cal.kind, id |-> cal.id, summary |-> cal.summary,
                          selected |-> (cal.selected # <<>>) /\ cal.selected[1],
                          primary |-> (cal.primary # <<>>) /\ cal.primary[1]]]
    IN  sorted_by_key(result, <<>>)

\* The Google service: the sequence of the events it holds, each
\*   [cal, id, transparency, recurrence, summary, start, end, instances];
\* transparency is <<>> (key absent) or <<"transparent">>, recurrence tells
\* whether the key is present, instances are the records that
\* events().instances() returns for the event.

\* service.events().list(calendarId=cal_id, ...).execute()["items"]
events_list(service, cal_id) == SelectSeq(service, LAMBDA e : e.cal = cal_id)

\* service.events().get(calendarId=cal_id, eventId=event_id).execute()
events_get(service, cal_id, event_id) ==
    service[CHOOSE k \in DOMAIN service :
                service[k].cal = cal_id /\ service[k].id = event_id]

\* service.events().instances(calendarId=cal_id, eventId=event_id, ...).execute()["items"]
events_instances(service, cal_id, event_id) ==
    events_get(service, cal_id, event_id).instances

\* The inner loop of lines 85-101 with the transparency test of line 87 left out.
pre_events_keep_transparent(items, cal_id) ==
    [k \in DOMAIN items |->
        [event_id |-> items[k].id, cal_id |-> cal_id, recurs |-> items[k].recurrence]]

RECURSIVE pre_events_of(_, _)
\* The inner loop of lines 85-101: the events of one calendar.
pre_events_of(items, cal_id) ==
    IF items = <<>> THEN <<>>
    ELSE LET event == Head(items)
         IN  (IF event.transparency = <<"transparent">>
              THEN <<>>
              ELSE <<[event_id |-> event.id, cal_id |-> cal_id,
                      recurs |-> event.recurrence]>>)
             \o pre_events_of(Tail(items), cal_id)

RECURSIVE first_loop(_, _, _)
\* The loop of lines 82-101, from the calendars still to visit.
first_loop(service, selected_cal, pre_events) ==
    IF selected_cal = <<>> THEN pre_events
    ELSE first_loop(service, Tail(selected_cal),
                    pre_events \o pre_events_of(events_list(service, Head(selected_cal)),
                                                Head(selected_cal)))

RECURSIVE keep_busy(_, _, _, _, _)
\* Lines 113-116 and 121-124: each instance normalized, tested and appended.
keep_busy(items, result, begin_time, end_time, local) ==
    IF items = <<>> THEN Ok(result)
    ELSE LET instance == reorg_instance(Head(items), local)
         IN  IF instance.outcome # "ok" THEN Raise(instance.outcome)
             ELSE LET busy == really_between_times(instance.value, begin_time, end_time)
                  IN  IF busy.outcome # "ok" THEN Raise(busy.outcome)
                      ELSE keep_busy(Tail(items),
                                     IF busy.value THEN Append(result, instance.value)
                                                   ELSE result,
                                     begin_time, end_time, local)

RECURSIVE second_loop(_, _, _, _, _, _)
\* The loop of lines 107-124, from the events still to visit.
second_loop(service, pre_events, result, begin_time, end_time, local) ==
    IF pre_events = <<>> THEN Ok(result)
    ELSE LET pre_e == Head(pre_events)
             items == IF pre_e.recurs
                      THEN events_instances(service, pre_e.cal_id, pre_e.event_id)
                      ELSE <<events_get(service, pre_e.cal_id, pre_e.event_id)>>
             kept  == keep_busy(items, result, begin_time, end_time, local)
         IN  IF kept.outcome # "ok" THEN kept
             ELSE second_loop(service, Tail(pre_events), kept.value,
                              begin_time, end_time, local)

list_instances_btwn_times_in_dates(service, selected_cal, begin_date, end_date, begin_time, end_time, local) ==
    second_loop(service, first_loop(service, selected_cal, <<>>), <<>>,
                begin_time, end_time, local)

(* ----------------------------- flask_main ------------------------------ *)

\* interpret_time: the text (here its reading <<hour, minute>>) as a local
\* time in the year 2016 (day 0 of the model).
interpret_time(text, local) ==
    isoformat([replace_tzinfo(arrow_get_HHmm(text), local) EXCEPT !.day = 0])

\* interpret_date: the text (here the date it names) at local midnight.
interpret_date(text, local) ==
    isoformat(replace_tzinfo(arrow_get_date(text), local))

\* Arrow.floor('day')
floor_day(arr) == [arr EXCEPT !.hour = 0, !.minute = 0, !.second = 0]

\* Arrow.ceil('day'), to the second
ceil_day(arr) == [arr EXCEPT !.hour = 23, !.minute = 59, !.second = 59]

\* init_session_values, now being the Arrow object of the present moment:
\* tomorrow to a week from now, 9am to 5pm, no calendar.
init_session_values(now, local) ==
    [begin_date |-> isoformat(floor_day([now EXCEPT !.day = @ + 1])),
     end_date |-> isoformat(ceil_day([now EXCEPT !.day = @ + 7])),
     begin_time |-> interpret_time(<<9, 0>>, local),
     end_time |-> interpret_time(<<17, 0>>, local),
     selected_cal |-> <<>>]

\* The assertion of line 114 of set_data.
times_make_sense(begin_time, end_time) ==
    timestamp(arrow_get(begin_time)) <= timestamp(arrow_get(end_time))

\* Lines 111-112 of set_data: the session once the two times are stored.
set_data_times(sess, form, local) ==
    [sess EXCEPT !.begin_time = interpret_time(form.begin_time, local),
                 !.end_time = interpret_time(form.end_time, local)]

\* Lines 117-131 of set_data: the dates and the selection stored.
set_data_rest(sess, form, local) ==
    [sess EXCEPT !.begin_date = interpret_date(form.daterange[1], local),
                 !.end_date = interpret_date(form.daterange[2], local),
                 !.selected_cal = form.checkbox]

(* ------------------------------- inputs -------------------------------- *)

IsoInstants ==
    {<<d, hm[1], hm[2], s, o>> : d \in Days, hm \in Clock, s \in Seconds, o \in Offsets}

Instances ==
    {[event_id |-> 1, summary |-> "s", begin_datetime |-> b, end_datetime |-> e] :
        b \in IsoInstants, e \in IsoInstants}

\* Raw timings: explicit instants round the clock on whole minutes, a date, or nothing.
RawTimes ==
    {[kind |-> "dateTime", value |-> <<d, hm[1], hm[2], 0, o>>] :
        d \in Days, hm \in Clock, o \in Offsets}
    \cup {[kind |-> "date", value |-> <<d>>] : d \in Days}
    \cup {[kind |-> "none", value |-> <<>>]}

RawInstances ==
    {[id |-> i, summary |-> s, start |-> st, end |-> en] :
        i \in {1, 2}, s \in {"s", "t"}, st \in RawTimes, en \in RawTimes}

\* Display names: "B", "Ba", "a".
Names == {<<66>>, <<66, 97>>, <<97>>}

CalAttrs ==
    [summary : Names, selected : {<<>>, <<TRUE>>, <<FALSE>>}, primary : {<<>>, <<TRUE>>}]

\* The calendar list with the attributes f[1], f[2], ...; an entry's id is its place.
CalendarList(f) ==
    [i \in DOMAIN f |->
        [kind |-> "calendar#calendarListEntry", id |-> i,
         summary |-> f[i].summary, selected |-> f[i].selected,
         primary |-> f[i].primary]]

\* The selected calendars, in the order of the form.
Selections == {<<>>, <<1>>, <<2>>, <<1, 2>>, <<2, 1>>}

Transparencies == {<<>>, <<"transparent">>}

DateTime(d, h, m, sec, o) == [kind |-> "dateTime", value |-> <<d, h, m, sec, o>>]

\* Timings of the recurrence instances: 09:00-18:00, midnight, and a record
\* without timing.
InstanceTimes ==
    {[start |-> DateTime(1, 9, 0, 0, 0), end |-> DateTime(1, 18, 0, 0, 0)],
     [start |-> DateTime(1, 0, 0, 0, 0), end |-> DateTime(1, 0, 0, 0, 0)],
     [start |-> [kind |-> "none", value |-> <<>>], end |-> [kind |-> "none", value |-> <<>>]]}

\* Timings of the single events: those, half a minute past 18:00 until the
\* night, 09:00 of another zone, and a whole day.
EventTimes ==
    InstanceTimes \cup
    {[start |-> DateTime(1, 18, 0, 30, 0), end |-> DateTime(1, 23, 59, 30, 0)],
     [start |-> DateTime(1, 9, 0, 0, 1), end |-> DateTime(1, 9, 0, 0, 1)],
     [start |-> [kind |-> "date", value |-> <<1>>], end |-> [kind |-> "date", value |-> <<1>>]]}

InstanceKinds ==
    {k \in [time : InstanceTimes, transparency : Transparencies] :
        k.transparency = <<>> \/ k.time.end = DateTime(1, 18, 0, 0, 0)}

EventKinds ==
    [cal : {1, 2}, recurrence : {FALSE}, transparency : Transparencies,
     time : EventTimes, instances : {<<>>}]
    \cup
    [cal : {1, 2}, recurrence : {TRUE}, transparency : Transparencies,
     time : {[start |-> DateTime(1, 9, 0, 0, 0), end |-> DateTime(1, 18, 0, 0, 0)]},
     instances : UNION {[1 .. m -> InstanceKinds] : m \in 0 .. MaxInst}]

\* The service holding the events f[1], f[2], ...: the k-th event has id
\* 10 k and its j-th instance id 10 k + j.
Service(f) ==
    [k \in DOMAIN f |->
        [cal |-> f[k].cal, id |-> 10 * k, transparency |-> f[k].transparency,
         recurrence |-> f[k].recurrence, summary |-> "s",
         start |-> f[k].time.start, end |-> f[k].time.end,
         instances |->
            [j \in DOMAIN f[k].instances |->
                [id |-> 10 * k + j, summary |-> "s",
                 transparency |-> f[k].instances[j].transparency,
                 start |-> f[k].instances[j].time.start,
                 end |-> f[k].instances[j].time.end]]]]

\* The daily windows asked for: 09:00 and 18:00, start <= end.
Windows == {<<<<9, 0>>, <<9, 0>>>>, <<<<9, 0>>, <<18, 0>>>>, <<<<18, 0>>, <<18, 0>>>>}

\* The posted forms: two times, the first and last date of the range, and
\* the calendars ticked.
Forms ==
    [begin_time : {<<9, 0>>, <<18, 0>>}, end_time : {<<9, 0>>, <<18, 0>>},
     daterange : {<<<<d1>>, <<d2>>>> : d1 \in Days, d2 \in Days},
     checkbox : {<<>>, <<1>>}]

(* ---------------------------- specification ---------------------------- *)

\* The session cookie before anything is stored: a key that is absent holds <<>>.
NoSession ==
    [begin_date |-> <<>>, end_date |-> <<>>, begin_time |-> <<>>, end_time |-> <<>>,
     selected_cal |-> <<>>]

Init ==
    /\ tzlocal \in Offsets
    /\ op = "idle"
    /\ args = <<>>
    /\ ret = <<>>
    /\ session = NoSession

\* Between two calls.
Return ==
    /\ op # "idle"
    /\ op' = "idle"
    /\ args' = <<>>
    /\ ret' = <<>>
    /\ UNCHANGED <<tzlocal, session>>

Call_really_between_times ==
    /\ op = "idle"
    /\ \E instance \in Instances, bt \in Clock, et \in Clock :
        LET begin_time == interpret_time(bt, tzlocal)
            end_time   == interpret_time(et, tzlocal)
        IN  /\ op' = "really_between_times"
            /\ args' = [instance |-> instance, begin_time |-> begin_time,
                        end_time |-> end_time]
            /\ ret' = really_between_times(instance, begin_time, end_time)
            /\ UNCHANGED <<tzlocal, session>>

Call_list_availabilities_btwn_dates ==
    /\ op = "idle"
    /\ \E b \in IsoInstants, e \in IsoInstants, bt \in Clock, et \in Clock :
        LET begin_time == interpret_time(bt, tzlocal)
            end_time   == interpret_time(et, tzlocal)
        IN  /\ op' = "list_availabilities_btwn_dates"
            /\ args' = [iso_begin_date |-> b, iso_end_date |-> e,
                        iso_begin_time |-> begin_time, iso_end_time |-> end_time]
            /\ ret' = list_availabilities_btwn_dates(b, e, begin_time, end_time)
            /\ UNCHANGED <<tzlocal, session>>

Call_reorg_instance ==
    /\ op = "idle"
    /\ \E instance \in RawInstances :
        /\ op' = "reorg_instance"
        /\ args' = [instance |-> instance]
        /\ ret' = reorg_instance(instance, tzlocal)
        /\ UNCHANGED <<tzlocal, session>>

Next ==
    \/ Call_really_between_times
    \/ Call_list_availabilities_btwn_dates
    \/ Call_reorg_instance
    \/ Return

Spec == Init /\ [][Next]_vars

Call_list_calendars ==
    /\ op = "idle"
    /\ \E n \in 0 .. MaxCals :
         \E f \in [1 .. n -> CalAttrs] :
            /\ op' = "list_calendars"
            /\ args' = [calendar_list |-> CalendarList(f)]
            /\ ret' = Ok(list_calendars(CalendarList(f)))
            /\ UNCHANGED <<tzlocal, session>>

RankNext ==
    \/ Call_list_calendars
    \/ Return

RankSpec == Init /\ [][RankNext]_vars

Call_list_instances_btwn_times_in_dates ==
    /\ op = "idle"
    /\ \E n \in 0 .. MaxEvents :
         \E f \in [1 .. n -> EventKinds], selected_cal \in Selections,
            bd \in Days, w \in Windows :
            LET begin_date == interpret_date(<<bd>>, tzlocal)
                end_date   == interpret_date(<<MaxDay>>, tzlocal)
                begin_time == interpret_time(w[1], tzlocal)
                end_time   == interpret_time(w[2], tzlocal)
            IN  /\ op' = "list_instances_btwn_times_in_dates"
                /\ args' = [service |-> Service(f), selected_cal |-> selected_cal,
                            begin_date |-> begin_date, end_date |-> end_date,
                            begin_time |-> begin_time, end_time |-> end_time]
                /\ ret' = list_instances_btwn_times_in_dates(Service(f), selected_cal,
                              begin_date, end_date, begin_time, end_time, tzlocal)
                /\ UNCHANGED <<tzlocal, session>>

PipeNext ==
    \/ Call_list_instances_btwn_times_in_dates
    \/ Return

PipeSpec == Init /\ [][PipeNext]_vars

\* Normalization alone and within the collection of the busy instances.
NormNext ==
    \/ Call_reorg_instance
    \/ Call_list_instances_btwn_times_in_dates
    \/ Return

NormSpec == Init /\ [][NormNext]_vars

\* GET /index
index ==
    /\ \E today \in Days :
        LET now == [day |-> today, hour |-> 9, minute |-> 0, second |-> 30, off |-> tzlocal]
        IN  session' = IF session.begin_date = <<>>
                       THEN init_session_values(now, tzlocal)
                       ELSE session
    /\ op' = "index"
    /\ args' = <<>>
    /\ ret' = Ok("index.html")
    /\ UNCHANGED tzlocal

\* POST /setdata with times that make sense: every option stored, redirect.
set_data_stored ==
    \E form \in Forms :
        LET timed == set_data_times(session, form, tzlocal)
        IN  /\ times_make_sense(timed.begin_time, timed.end_time)
            /\ session' = set_data_rest(timed, form, tzlocal)
            /\ op' = "set_data"
            /\ args' = form
            /\ ret' = Ok("redirect")
            /\ UNCHANGED tzlocal

\* POST /setdata failing its assertion, the exception propagated (debug
\* mode): the cookie is not written.
set_data_assert_propagated ==
    \E form \in Forms :
        LET timed == set_data_times(session, form, tzlocal)
        IN  /\ ~times_make_sense(timed.begin_time, timed.end_time)
            /\ op' = "set_data"
            /\ args' = form
            /\ ret' = Raise("AssertionError")
            /\ UNCHANGED <<tzlocal, session>>

\* POST /setdata failing its assertion, answered with a 500 response: the
\* cookie is written with the two times already stored.
set_data_assert_answered ==
    \E form \in Forms :
        LET timed == set_data_times(session, form, tzlocal)
        IN  /\ ~times_make_sense(timed.begin_time, timed.end_time)
            /\ session' = timed
            /\ op' = "set_data"
            /\ args' = form
            /\ ret' = Raise("AssertionError")
            /\ UNCHANGED tzlocal

AppNext ==
    \/ index
    \/ set_data_stored
    \/ set_data_assert_propagated
    \/ set_data_assert_answered

AppSpec == Init /\ [][AppNext]_vars

(* ------------------------------- claims -------------------------------- *)

IsCall(name) == op = name /\ ret # <<>>

\* The window of a call is not the whole-day sentinel.
NonSentinel == format_HHmm(arrow_get(args.begin_time)) # format_HHmm(arrow_get(args.end_time))

InstanceBegin == arrow_get(args.instance.begin_datetime)

InstanceEnd == arrow_get(args.instance.end_datetime)

\* The daily windows generated over the instance's own date span.
InstanceWindows ==
    list_availabilities_btwn_dates(args.instance.begin_datetime,
        args.instance.end_datetime, args.begin_time, args.end_time).value

DayAt(hm) ==
    [day |-> InstanceBegin.day, hour |-> hm[1], minute |-> hm[2],
     second |-> 0, off |-> InstanceBegin.off]

DayBeginInstant == DayAt(format_HHmm(arrow_get(args.begin_time)))

DayEndInstant == DayAt(format_HHmm(arrow_get(args.end_time)))

\* An instance that begins and ends on one date of one zone, begin <= end,
\* tested against a window whose start is before its end.
SingleDayCall ==
    /\ IsCall("really_between_times")
    /\ timestamp(arrow_get(args.begin_time)) < timestamp(arrow_get(args.end_time))
    /\ InstanceBegin.day = InstanceEnd.day
    /\ InstanceBegin.off = InstanceEnd.off
    /\ timestamp(InstanceBegin) <= timestamp(InstanceEnd)

\* C2: with a non-sentinel window, an instance that spans exactly
\* [dayBeginInstant, dayEndInstant] is busy, an instance that ends exactly
\* at dayBeginInstant (beginning earlier that day) is busy, and a single-day
\* instance that ends strictly before dayBeginInstant is not busy.
C2_BoundaryInclusive ==
    SingleDayCall =>
        /\ (InstanceBegin = DayBeginInstant /\ InstanceEnd = DayEndInstant)
               => ret = Ok(TRUE)
        /\ InstanceEnd = DayBeginInstant => ret = Ok(TRUE)
        /\ timestamp(InstanceEnd) < timestamp(DayBeginInstant) => ret = Ok(FALSE)

\* C3: for startDate <= endDate, list_availabilities_btwn_dates returns one
\* entry per date from startDate to endDate, ascending, entry i running from
\* date i at exactly the window's start time to date i at exactly its end
\* time, in the date's offset, whatever time of day the range dates carry.
C3_OneExactWindowPerDate ==
    (/\ IsCall("list_availabilities_btwn_dates")
     /\ args.iso_begin_date[1] <= args.iso_end_date[1])
    => /\ ret.outcome = "ok"
       /\ Len(ret.value) = args.iso_end_date[1] - args.iso_begin_date[1] + 1
       /\ \A i \in DOMAIN ret.value :
            /\ ret.value[i].bt = <<args.iso_begin_date[1] + i - 1,
                                   args.iso_begin_time[2], args.iso_begin_time[3],
                                   0, args.iso_begin_date[5]>>
            /\ ret.value[i].et = <<args.iso_begin_date[1] + i - 1,
                                   args.iso_end_time[2], args.iso_end_time[3],
                                   0, args.iso_begin_date[5]>>

\* C4: when the window's start and end time of day are equal,
\* really_between_times returns true for every instance, whatever its
\* instants, and generates no daily window.
C4_SentinelAlwaysBusy ==
    (IsCall("really_between_times") /\ ~NonSentinel) => ret = Ok(TRUE)

\* A sentinel call on an instance that begins after it ends, on a later
\* date: one whose windows could not be generated.
C4_Witness ==
    /\ IsCall("really_between_times")
    /\ ~NonSentinel
    /\ InstanceBegin.day > InstanceEnd.day
    /\ list_availabilities_btwn_dates(args.instance.begin_datetime,
           args.instance.end_datetime, args.begin_time, args.end_time).outcome
         = "OverflowError"
    /\ ret = Ok(TRUE)

\* C9: an all-day raw instance normalizes to its start date at 00:00 local
\* and its end date at 23:59 local, id and summary copied; a raw instance
\* with explicit instants keeps those two instants unchanged.
C9_Normalize ==
    IsCall("reorg_instance") =>
        LET raw == args.instance
        IN  /\ (raw.start.kind = "date" /\ raw.end.kind = "date")
                 => ret = Ok([event_id |-> raw.id, summary |-> raw.summary,
                              begin_datetime |-> <<raw.start.value[1], 0, 0, 0, tzlocal>>,
                              end_datetime |-> <<raw.end.value[1], 23, 59, 0, tzlocal>>])
            /\ (raw.start.kind = "dateTime" /\ raw.end.kind = "dateTime")
                 => /\ ret.outcome = "ok"
                    /\ ret.value.begin_datetime = raw.start.value
                    /\ ret.value.end_datetime = raw.end.value

\* An all-day instance over two dates, normalized away from UTC.
C9_Witness ==
    /\ IsCall("reorg_instance")
    /\ args.instance.start.kind = "date"
    /\ args.instance.end.kind = "date"
    /\ args.instance.start.value[1] < args.instance.end.value[1]
    /\ tzlocal # 0
    /\ ret.outcome = "ok"

\* The rank of a descriptor under the ordering of the calendar list:
\* primary before non-primary, then selected before non-selected.
FlagRank(cal) == (IF cal.primary THEN 0 ELSE 2) + (IF cal.selected THEN 0 ELSE 1)

\* Name a comes strictly before name b, by code points.
NameBefore(a, b) ==
    \E k \in 1 .. Len(b) :
        /\ \A j \in 1 .. k - 1 : j <= Len(a) /\ a[j] = b[j]
        /\ \/ Len(a) = k - 1
           \/ Len(a) >= k /\ a[k] < b[k]

RankedBefore(c1, c2) ==
    \/ FlagRank(c1) < FlagRank(c2)
    \/ FlagRank(c1) = FlagRank(c2) /\ NameBefore(c1.summary, c2.summary)

\* C8: list_calendars returns a permutation of its input, ascending by
\* (primary first, selected first, display name by code points), entries
\* with equal flags and name in their input order; nothing in, nothing out.
C8_RankedStablePermutation ==
    IsCall("list_calendars") =>
        LET in  == args.calendar_list
            out == ret.value
        IN  /\ Len(out) = Len(in)
            /\ {out[i].id : i \in DOMAIN out} = DOMAIN in
            /\ \A i \in DOMAIN out :
                 LET cal == in[out[i].id]
                 IN  /\ out[i].summary = cal.summary
                     /\ out[i].kind = cal.kind
                     /\ out[i].selected = (cal.selected = <<TRUE>>)
                     /\ out[i].primary = (cal.primary = <<TRUE>>)
            /\ \A i, j \in DOMAIN out :
                 i < j => /\ ~RankedBefore(out[j], out[i])
                          /\ (~RankedBefore(out[i], out[j])) => out[i].id < out[j].id

\* A list that had to be reordered, with two entries of equal flags and name.
C8_Witness ==
    /\ IsCall("list_calendars")
    /\ Len(ret.value) = 3
    /\ ret.value[1].id = 3
    /\ ret.value[1].primary /\ ~ret.value[1].selected
    /\ ret.value[2].selected
    /\ ret.value[2].summary = ret.value[3].summary
    /\ ret.value[2].selected = ret.value[3].selected
    /\ ret.value[2].primary = ret.value[3].primary

\* The raw records that list_instances_btwn_times_in_dates is handed as
\* instances, each named <<i, k, j>>: the i-th selected calendar, the k-th
\* event of the service, not transparent, and its j-th recurrence instance
\* (j = 0: the event itself, not recurring).
Leaves ==
    {l \in (DOMAIN args.selected_cal) \X (DOMAIN args.service) \X (0 .. MaxInst) :
        LET event == args.service[l[2]]
        IN  /\ event.cal = args.selected_cal[l[1]]
            /\ event.transparency # <<"transparent">>
            /\ IF event.recurrence THEN l[3] \in DOMAIN event.instances ELSE l[3] = 0}

LeafRaw(l) ==
    IF l[3] = 0 THEN args.service[l[2]] ELSE args.service[l[2]].instances[l[3]]

LeafInstance(l) == reorg_instance(LeafRaw(l), tzlocal)

\* Discovery order: calendar, then event, then instance.
LeafBefore(l, m) ==
    \/ l[1] < m[1]
    \/ l[1] = m[1] /\ l[2] < m[2]
    \/ l[1] = m[1] /\ l[2] = m[2] /\ l[3] < m[3]

BusyLeaves ==
    {l \in Leaves :
        really_between_times(LeafInstance(l).value, args.begin_time, args.end_time)
          = Ok(TRUE)}

\* The raw record with the given id.
RawById(id) ==
    IF id % 10 = 0 THEN args.service[id \div 10]
    ELSE args.service[id \div 10].instances[id % 10]

PipeReturned == IsCall("list_instances_btwn_times_in_dates") /\ ret.outcome = "ok"

\* C5: no raw record flagged transparent is in the output of
\* list_instances_btwn_times_in_dates, be it a top-level event or a
\* recurrence instance of an event that is not itself transparent.
C5_NoTransparentRecordInOutput ==
    PipeReturned =>
        \A p \in DOMAIN ret.value :
            RawById(ret.value[p].event_id).transparency # <<"transparent">>

TimeMin == arrow_get(merge_date_time(args.begin_date, args.begin_time))

TimeMax == arrow_get(merge_date_time(args.end_date, args.end_time))

\* Every instance handed over has begin <= end and meets [TimeMin, TimeMax].
DeliveredWithinQuery ==
    \A l \in Leaves :
        /\ LeafInstance(l).outcome = "ok"
        /\ LET b == arrow_get(LeafInstance(l).value.begin_datetime)
               e == arrow_get(LeafInstance(l).value.end_datetime)
           IN  /\ timestamp(b) <= timestamp(e)
               /\ timestamp(b) <= timestamp(TimeMax)
               /\ timestamp(e) >= timestamp(TimeMin)

\* The requested date d, in the zone of the request, at exactly hm.
RequestedAt(d, hm) ==
    [day |-> d, hour |-> hm[1], minute |-> hm[2], second |-> 0,
     off |-> args.begin_date[5]]

\* C7: with a non-sentinel window, when every delivered instance has
\* begin <= end and meets the queried interval, every instance in the output
\* overlaps the daily window of some date of the requested range.
C7_OutputWithinRequestedDates ==
    (PipeReturned /\ NonSentinel /\ DeliveredWithinQuery) =>
        \A p \in DOMAIN ret.value :
            \E d \in args.begin_date[1] .. args.end_date[1] :
                /\ ~(timestamp(arrow_get(ret.value[p].end_datetime))
                       < timestamp(RequestedAt(d, format_HHmm(arrow_get(args.begin_time)))))
                /\ ~(timestamp(arrow_get(ret.value[p].begin_datetime))
                       > timestamp(RequestedAt(d, format_HHmm(arrow_get(args.end_time)))))

\* C10: a date range whose start date is after its end date is a hard
\* failure at once: set_data does not accept it, and no window sequence is
\* produced for it.
C10_ReversedRangeRejected ==
    (op = "set_data" /\ args.daterange[1][1] > args.daterange[2][1])
    => /\ ret.outcome # "ok"
       /\ ~(/\ session.begin_date = interpret_date(args.daterange[1], tzlocal)
            /\ session.end_date = interpret_date(args.daterange[2], tzlocal))

\* The delivered instances whose start carries neither an instant nor a date.
UntimedLeaves == {l \in Leaves : LeafRaw(l).start.kind = "none"}

\* C11: a raw instance whose start carries neither a dateTime nor a date makes
\* reorg_instance fail with AssertionError and return no instance; hence
\* list_instances_btwn_times_in_dates returns nothing once it is handed such
\* an instance, and every instance of its output has both instants.
C11_UntimedInstanceRejected ==
    /\ (IsCall("reorg_instance") /\ args.instance.start.kind = "none")
         => ret.outcome = "AssertionError"
    /\ IsCall("list_instances_btwn_times_in_dates") =>
         /\ UntimedLeaves # {} => ret.outcome # "ok"
         /\ ret.outcome = "ok" =>
              \A p \in DOMAIN ret.value :
                  /\ RawById(ret.value[p].event_id).start.kind \in {"dateTime", "date"}
                  /\ Len(ret.value[p].begin_datetime) = 5
                  /\ Len(ret.value[p].end_datetime) = 5

\* A recurring event whose first instance is busy and whose second instance
\* has no timing: the collection ends in the assertion.
C11_Witness ==
    /\ IsCall("list_instances_btwn_times_in_dates")
    /\ ret.outcome = "AssertionError"
    /\ \E l \in UntimedLeaves :
        /\ l[3] = 2
        /\ LeafRaw(<<l[1], l[2], 1>>).start.kind = "dateTime"
        /\ really_between_times(LeafInstance(<<l[1], l[2], 1>>).value,
                                args.begin_time, args.end_time) = Ok(TRUE)

\* C12: for a non-sentinel window and an instance with begin <= end as
\* absolute instants, whatever the two offsets, really_between_times
\* terminates: the one-day stepping from the begin's calendar date reaches the
\* end's calendar date, so the call returns its answer.
C12_SteppingReachesEndDate ==
    (/\ IsCall("really_between_times")
     /\ NonSentinel
     /\ timestamp(InstanceBegin) <= timestamp(InstanceEnd))
    => ret.outcome = "ok"

====
